---- MODULE Spec2Model ----
(***************************************************************************)
(* Control-word group scanning of hashbrown's raw table, 16-bit control    *)
(* words, two backends: src/raw/array.rs (portable loop) and               *)
(* src/raw/avx2.rs (256-bit vector unit).                                  *)
(*                                                                         *)
(* A Group is a function from lane 0..15 to a 16-bit word.  Memory is a    *)
(* function from byte offset 0..31 to a byte.  x86 is little-endian.       *)
(***************************************************************************)
EXTENDS Integers, FiniteSets, Sequences, TLC

VARIABLES backend, grp, op, probe, mask, out, ptr, src, bufAddr, buf

vars == <<backend, grp, op, probe, mask, out, ptr, src, bufAddr, buf>>

(***************************************************************************)
(* Bounds of the model.                                                    *)
(***************************************************************************)
\* at most this many lanes of an input group differ from EMPTY
MaxDirty == 1
\* addresses range over 0..MaxAddr
MaxAddr == 33

(***************************************************************************)
(* Constants of the program.                                               *)
(***************************************************************************)
WIDTH == 16
BITMASK_MASK == 65535
HASH_MASK_HIGH_BIT == 32768
EMPTY == 65535
DELETED == 32768
U16_MAX == 65535

Backends == {"array", "avx2"}
Lanes == 0 .. (WIDTH - 1)

\* mem::size_of::<Group>(): [u16; 16] and __m256i are both 32 bytes
BYTES == 2 * WIDTH

\* mem::align_of::<Group>(): [HashWord; 16] has the alignment of u16,
\* __m256i is 32-byte aligned
GroupAlign(k) == IF k = "array" THEN 2 ELSE 32

NULL == -1
NoGroup == <<>>

(***************************************************************************)
(* Fixed-width integer arithmetic.                                         *)
(***************************************************************************)
Pow2(n) == 2 ^ n

Bit(x, i) == (x \div Pow2(i)) % 2

RECURSIVE BitAnd(_, _, _)
BitAnd(a, b, n) ==
    IF n = 0 \/ a = 0 \/ b = 0 THEN 0
    ELSE (a % 2) * (b % 2) + 2 * BitAnd(a \div 2, b \div 2, n - 1)

RECURSIVE BitOr(_, _, _)
BitOr(a, b, n) ==
    IF n = 0 THEN 0
    ELSE IF a = 0 THEN b % Pow2(n)
    ELSE IF b = 0 THEN a % Pow2(n)
    ELSE (IF (a % 2) + (b % 2) > 0 THEN 1 ELSE 0)
         + 2 * BitOr(a \div 2, b \div 2, n - 1)

RECURSIVE BitXor(_, _, _)
BitXor(a, b, n) ==
    IF n = 0 THEN 0
    ELSE ((a + b) % 2) + 2 * BitXor(a \div 2, b \div 2, n - 1)

\* 1_u16 << i
Shl16(x, i) == (x * Pow2(i)) % Pow2(16)

\* u16 as i16, i16 as u16, i32 as u16
AsI16(w) == IF w >= Pow2(15) THEN w - Pow2(16) ELSE w
AsU16(x) == IF x < 0 THEN x + Pow2(16) ELSE x % Pow2(16)

\* the byte holding a signed 8-bit value
I8Bits(x) == IF x < 0 THEN x + 256 ELSE x
AsI8(b) == IF b >= 128 THEN b - 256 ELSE b

(***************************************************************************)
(* BitMask (src/raw/bitmask.rs): invert is the complement over the 16      *)
(* significant bits.                                                       *)
(***************************************************************************)
invert(m) == BitXor(m, BITMASK_MASK, 16)

(***************************************************************************)
(* Portable backend, array.rs.                                             *)
(***************************************************************************)
RECURSIVE Array_match_byte_from(_, _, _, _)
Array_match_byte_from(g, byte, i, m) ==
    IF i = WIDTH THEN m
    ELSE Array_match_byte_from(g, byte, i + 1,
             IF byte = g[i] THEN BitOr(m, Shl16(1, i), 16) ELSE m)

Array_match_byte(g, byte) == Array_match_byte_from(g, byte, 0, 0)

Array_match_empty(g) == Array_match_byte(g, EMPTY)

RECURSIVE Array_match_empty_or_deleted_from(_, _, _)
Array_match_empty_or_deleted_from(g, i, m) ==
    IF i = WIDTH THEN m
    ELSE Array_match_empty_or_deleted_from(g, i + 1,
             IF g[i] = EMPTY \/ g[i] = DELETED
             THEN BitOr(m, Shl16(1, i), 16) ELSE m)

Array_match_empty_or_deleted(g) == Array_match_empty_or_deleted_from(g, 0, 0)

\* a variant that complements match_empty
Array_match_full_of_empty(g) == invert(Array_match_empty(g))

Array_match_full(g) == invert(Array_match_empty_or_deleted(g))

\* a variant that tests for EMPTY instead of the high bit
Array_convert_only_empty(g) ==
    [i \in Lanes |-> IF g[i] = EMPTY THEN U16_MAX ELSE HASH_MASK_HIGH_BIT]

Array_convert_special_to_empty_and_full_to_deleted(g) ==
    [i \in Lanes |->
        IF BitAnd(g[i], HASH_MASK_HIGH_BIT, 16) # 0
        THEN U16_MAX
        ELSE HASH_MASK_HIGH_BIT]

(***************************************************************************)
(* Vector instructions used by avx2.rs.  A 256-bit register is 16 lanes    *)
(* of 16 bits, a 128-bit register 8 lanes of 16 bits or 16 bytes.          *)
(***************************************************************************)
mm256_set1_epi16(a) == [i \in Lanes |-> AsU16(a)]

mm256_setzero_si256 == [i \in Lanes |-> 0]

mm256_cmpeq_epi16(a, b) == [i \in Lanes |-> IF a[i] = b[i] THEN 65535 ELSE 0]

mm256_cmpgt_epi16(a, b) ==
    [i \in Lanes |-> IF AsI16(a[i]) > AsI16(b[i]) THEN 65535 ELSE 0]

mm256_or_si256(a, b) == [i \in Lanes |-> BitOr(a[i], b[i], 16)]

mm256_extracti128_si256(a, imm) == [j \in 0 .. 7 |-> a[8 * imm + j]]

\* a variant that truncates instead of saturating
Truncate8(w) == w % 256

\* signed saturation of a 16-bit lane to 8 bits
Saturate8(w) ==
    LET x == AsI16(w)
    IN  I8Bits(IF x > 127 THEN 127 ELSE IF x < -128 THEN -128 ELSE x)

mm_packs_epi16(a, b) ==
    [j \in Lanes |-> IF j < 8 THEN Saturate8(a[j]) ELSE Saturate8(b[j - 8])]

RECURSIVE movemask_from(_, _)
movemask_from(a, j) ==
    IF j = 16 THEN 0 ELSE Bit(a[j], 7) * Pow2(j) + movemask_from(a, j + 1)

mm_movemask_epi8(a) == movemask_from(a, 0)

(***************************************************************************)
(* Accelerated backend, avx2.rs.                                           *)
(***************************************************************************)
\* a variant that packs the two halves in the wrong order
Avx2_match_byte_swapped(g, byte) ==
    LET cmp == mm256_cmpeq_epi16(g, mm256_set1_epi16(AsI16(byte)))
        lo  == mm256_extracti128_si256(cmp, 0)
        hi  == mm256_extracti128_si256(cmp, 1)
    IN  AsU16(mm_movemask_epi8(mm_packs_epi16(hi, lo)))

Avx2_match_byte(g, byte) ==
    LET cmp == mm256_cmpeq_epi16(g, mm256_set1_epi16(AsI16(byte)))
        lo  == mm256_extracti128_si256(cmp, 0)
        hi  == mm256_extracti128_si256(cmp, 1)
    IN  AsU16(mm_movemask_epi8(mm_packs_epi16(lo, hi)))

Avx2_match_empty(g) == Avx2_match_byte(g, EMPTY)

Avx2_match_empty_or_deleted(g) ==
    LET lo == mm256_extracti128_si256(g, 0)
        hi == mm256_extracti128_si256(g, 1)
    IN  AsU16(mm_movemask_epi8(mm_packs_epi16(lo, hi)))

Avx2_match_full(g) == invert(Avx2_match_empty_or_deleted(g))

Avx2_convert_special_to_empty_and_full_to_deleted(g) ==
    LET zero    == mm256_setzero_si256
        special == mm256_cmpgt_epi16(zero, g)
    IN  mm256_or_si256(special, mm256_set1_epi16(AsI16(HASH_MASK_HIGH_BIT)))

(***************************************************************************)
(* The Group of the backend selected at build time.                        *)
(***************************************************************************)
match_byte(k, g, byte) ==
    IF k = "array" THEN Array_match_byte(g, byte) ELSE Avx2_match_byte(g, byte)

match_empty(k, g) ==
    IF k = "array" THEN Array_match_empty(g) ELSE Avx2_match_empty(g)

match_empty_or_deleted(k, g) ==
    IF k = "array" THEN Array_match_empty_or_deleted(g)
    ELSE Avx2_match_empty_or_deleted(g)

match_full(k, g) ==
    IF k = "array" THEN Array_match_full(g) ELSE Avx2_match_full(g)

convert_special_to_empty_and_full_to_deleted(k, g) ==
    IF k = "array" THEN Array_convert_special_to_empty_and_full_to_deleted(g)
    ELSE Avx2_convert_special_to_empty_and_full_to_deleted(g)


(***************************************************************************)
(* Memory.  A buffer of WIDTH control words is BYTES bytes, each word      *)
(* stored low byte first.                                                  *)
(***************************************************************************)
ByteOffsets == 0 .. (BYTES - 1)

\* ptr.cast::<[u16; 16]>().read_unaligned() and .read()
Array_read(bytes) == [i \in Lanes |-> bytes[2 * i] + 256 * bytes[2 * i + 1]]

\* a variant that writes the lanes back to front
Array_write_reversed(g) ==
    [j \in ByteOffsets |->
        IF j % 2 = 0 THEN g[WIDTH - 1 - (j \div 2)] % 256
        ELSE g[WIDTH - 1 - (j \div 2)] \div 256]

\* ptr.cast::<[u16; 16]>().write(self.0)
Array_write(g) ==
    [j \in ByteOffsets |->
        IF j % 2 = 0 THEN g[j \div 2] % 256 ELSE g[j \div 2] \div 256]

mm256_loadu_si256(bytes) ==
    [i \in Lanes |-> bytes[2 * i] + 256 * bytes[2 * i + 1]]

mm256_load_si256(bytes) ==
    [i \in Lanes |-> bytes[2 * i] + 256 * bytes[2 * i + 1]]

mm256_store_si256(a) ==
    [j \in ByteOffsets |->
        IF j % 2 = 0 THEN a[j \div 2] % 256 ELSE a[j \div 2] \div 256]

load(k, bytes) ==
    IF k = "array" THEN Array_read(bytes) ELSE mm256_loadu_si256(bytes)

load_aligned(k, bytes) ==
    IF k = "array" THEN Array_read(bytes) ELSE mm256_load_si256(bytes)

store_aligned(k, g) ==
    IF k = "array" THEN Array_write(g) ELSE mm256_store_si256(g)

\* debug_assert_eq!(ptr as usize & (mem::align_of::<Self>() - 1), 0)
IsAligned(k, a) == BitAnd(a, GroupAlign(k) - 1, 16) = 0

(***************************************************************************)
(* static_empty: ALIGNED_BYTES is a #[repr(C)] struct of a zero-length     *)
(* array of Group followed by WIDTH words, every word EMPTY.               *)
(***************************************************************************)
Max(a, b) == IF a > b THEN a ELSE b

\* a variant without the _align field
AlignedBytesAlignNoGroup(k) == 2

\* alignment of a repr(C) struct: the largest alignment of its fields,
\* [Group; 0] and [u16; WIDTH]
AlignedBytesAlign(k) == Max(GroupAlign(k), 2)

\* offset of the field bytes: the zero-sized _align takes no room
AlignedBytesOffset(k) == 0

ALIGNED_BYTES == [i \in Lanes |-> EMPTY]

\* the static as it lies in memory
StaticBytes ==
    [j \in ByteOffsets |->
        IF j % 2 = 0 THEN ALIGNED_BYTES[j \div 2] % 256
        ELSE ALIGNED_BYTES[j \div 2] \div 256]

\* the addresses the static's field bytes may be placed at
static_empty(k) ==
    {a + AlignedBytesOffset(k) :
        a \in {b \in 0 .. MaxAddr : b % AlignedBytesAlign(k) = 0}}

(***************************************************************************)
(* Inputs.                                                                 *)
(***************************************************************************)
\* EMPTY, DELETED, a word with the high bit set that is neither (0x8001),
\* and the full words 0x0003 and 0x7FFF
Words == {65535, 32768, 32769, 3, 32767}

\* groups of EMPTY lanes with at most MaxDirty lanes overwritten
DirtySets == {S \in SUBSET Lanes : Cardinality(S) <= MaxDirty}

DirtyGroups ==
    UNION {{[i \in Lanes |-> IF i \in S THEN f[i] ELSE EMPTY] :
               f \in [S -> Words \ {EMPTY}]} : S \in DirtySets}

\* groups with every lane in use: the words of PatternWords in rotation;
\* 0xFF7F is -129, 0x0080 is 128, 0x0123 an ordinary hash fragment
PatternWords == <<65535, 3, 32768, 32769, 32767, 65407, 128, 0, 291>>

PatternGroups ==
    {[i \in Lanes |-> PatternWords[((i + s) % Len(PatternWords)) + 1]] :
        s \in 0 .. (Len(PatternWords) - 1)}

\* the group of section 8 of the specification:
\* [EMPTY, DELETED, 0x0003, EMPTY, 0x7FFF, DELETED, EMPTY x 10]
ScenarioGroup ==
    [i \in Lanes |->
        IF i = 1 \/ i = 5 THEN DELETED
        ELSE IF i = 2 THEN 3
        ELSE IF i = 4 THEN 32767
        ELSE EMPTY]

Groups == DirtyGroups \cup PatternGroups \cup {ScenarioGroup}

\* lane i holds seed + i * 0x1003: over all seeds every lane takes every
\* 16-bit value
SeedGroup(seed) == [i \in Lanes |-> (seed + i * 4099) % Pow2(16)]

(***************************************************************************)
(* The scan operations applied to a group.                                 *)
(***************************************************************************)
Init ==
    /\ backend \in Backends
    /\ grp \in Groups
    /\ op = "none"
    /\ probe = 0
    /\ mask = 0
    /\ out = NoGroup
    /\ ptr = NULL
    /\ src = "none"
    /\ bufAddr = NULL
    /\ buf = <<>>

MatchByte(byte) ==
    /\ op' = "match_byte"
    /\ probe' = byte
    /\ mask' = match_byte(backend, grp, byte)
    /\ out' = NoGroup
    /\ UNCHANGED <<backend, grp, ptr, src, bufAddr, buf>>

MatchEmpty ==
    /\ op' = "match_empty"
    /\ probe' = 0
    /\ mask' = match_empty(backend, grp)
    /\ out' = NoGroup
    /\ UNCHANGED <<backend, grp, ptr, src, bufAddr, buf>>

MatchEmptyOrDeleted ==
    /\ op' = "match_empty_or_deleted"
    /\ probe' = 0
    /\ mask' = match_empty_or_deleted(backend, grp)
    /\ out' = NoGroup
    /\ UNCHANGED <<backend, grp, ptr, src, bufAddr, buf>>

MatchFull ==
    /\ op' = "match_full"
    /\ probe' = 0
    /\ mask' = match_full(backend, grp)
    /\ out' = NoGroup
    /\ UNCHANGED <<backend, grp, ptr, src, bufAddr, buf>>

Convert ==
    /\ op' = "convert"
    /\ probe' = 0
    /\ mask' = 0
    /\ out' = convert_special_to_empty_and_full_to_deleted(backend, grp)
    /\ UNCHANGED <<backend, grp, ptr, src, bufAddr, buf>>

Next ==
    \/ \E byte \in Words : MatchByte(byte)
    \/ MatchEmpty
    \/ MatchEmptyOrDeleted
    \/ MatchFull
    \/ Convert

Spec == Init /\ [][Next]_vars

(***************************************************************************)
(* The accelerated backend over the whole 16-bit domain.                   *)
(***************************************************************************)
SatInit ==
    /\ backend = "avx2"
    /\ grp \in {SeedGroup(seed) : seed \in 0 .. U16_MAX}
    /\ op = "none"
    /\ probe = 0
    /\ mask = 0
    /\ out = NoGroup
    /\ ptr = NULL
    /\ src = "none"
    /\ bufAddr = NULL
    /\ buf = <<>>

SatNext == MatchEmptyOrDeleted

SatSpec == SatInit /\ [][SatNext]_vars

(***************************************************************************)
(* Construction: static_empty, load, load_aligned, store_aligned.  The     *)
(* caller holds a group and owns one buffer of WIDTH words, filled with    *)
(* EMPTY, at bufAddr.                                                      *)
(***************************************************************************)
MemInit ==
    /\ backend \in Backends
    /\ grp \in PatternGroups
    /\ op = "none"
    /\ probe = 0
    /\ mask = 0
    /\ out = NoGroup
    /\ ptr = NULL
    /\ src = "none"
    /\ bufAddr \in {a \in 0 .. MaxAddr : a % 2 = 0}
    /\ buf = StaticBytes

\* the address and contents of a source of a load
AddrOf(s) == IF s = "static" THEN ptr ELSE bufAddr
BytesOf(s) == IF s = "static" THEN StaticBytes ELSE buf

\* the static lies at one address for the whole run: the first call fixes
\* it, later calls return it again
StaticEmpty ==
    /\ \E a \in static_empty(backend) :
        /\ ptr = NULL \/ ptr = a
        /\ ptr' = a
    /\ op' = "static_empty"
    /\ UNCHANGED <<backend, grp, probe, mask, out, src, bufAddr, buf>>

Load(s) ==
    /\ AddrOf(s) # NULL
    /\ grp' = load(backend, BytesOf(s))
    /\ src' = s
    /\ op' = "load"
    /\ probe' = 0
    /\ mask' = 0
    /\ UNCHANGED <<backend, out, ptr, bufAddr, buf>>

LoadAligned(s) ==
    /\ AddrOf(s) # NULL
    /\ IsAligned(backend, AddrOf(s))
    /\ grp' = load_aligned(backend, BytesOf(s))
    /\ src' = s
    /\ op' = "load_aligned"
    /\ probe' = 0
    /\ mask' = 0
    /\ UNCHANGED <<backend, out, ptr, bufAddr, buf>>

StoreAligned ==
    /\ IsAligned(backend, bufAddr)
    /\ buf' = store_aligned(backend, grp)
    /\ op' = "store_aligned"
    /\ probe' = 0
    /\ mask' = 0
    /\ UNCHANGED <<backend, grp, out, ptr, src, bufAddr>>

MemNext ==
    \/ StaticEmpty
    \/ \E s \in {"static", "buf"} : Load(s)
    \/ \E s \in {"static", "buf"} : LoadAligned(s)
    \/ StoreAligned
    \/ MatchEmpty

MemSpec == MemInit /\ [][MemNext]_vars


(***************************************************************************)
(* Properties.                                                             *)
(***************************************************************************)
HighBit(w) == Bit(w, 15)

IsOp(o) == op = o

\* the mask of a match operation is a 16-bit value
MaskInRange == mask \in 0 .. BITMASK_MASK

\* C1: both backends return the same result for every operation on every
\* group and probe: what the backend in use returned is what each backend
\* computes from the same input.
BackendEquivalence ==
    \A k \in Backends :
        /\ IsOp("match_byte") => mask = match_byte(k, grp, probe)
        /\ IsOp("match_empty") => mask = match_empty(k, grp)
        /\ IsOp("match_empty_or_deleted") =>
               mask = match_empty_or_deleted(k, grp)
        /\ IsOp("match_full") => mask = match_full(k, grp)
        /\ IsOp("convert") =>
               out = convert_special_to_empty_and_full_to_deleted(k, grp)

\* C2: match_empty_or_deleted sets bit i iff lane i has its high bit set,
\* and match_full sets bit i iff lane i has its high bit clear, whatever
\* the low 15 bits are.
HighBitClassification ==
    /\ IsOp("match_empty_or_deleted") =>
           \A i \in Lanes : (Bit(mask, i) = 1) <=> (HighBit(grp[i]) = 1)
    /\ IsOp("match_full") =>
           \A i \in Lanes : (Bit(mask, i) = 1) <=> (HighBit(grp[i]) = 0)

\* C3: the transform maps EMPTY to EMPTY, DELETED to EMPTY and every full
\* word to DELETED, lane by lane.
TransformCorrect ==
    IsOp("convert") =>
        /\ DOMAIN out = Lanes
        /\ \A i \in Lanes :
            /\ grp[i] = EMPTY => out[i] = EMPTY
            /\ grp[i] = DELETED => out[i] = EMPTY
            /\ HighBit(grp[i]) = 0 => out[i] = DELETED

TransformWitness ==
    /\ IsOp("convert")
    /\ \E i, j, l \in Lanes :
        /\ i < j /\ j < l
        /\ grp[i] = DELETED /\ out[i] = EMPTY
        /\ grp[j] = 32767 /\ out[j] = DELETED
        /\ grp[l] = EMPTY /\ out[l] = EMPTY

\* C4: match_byte(value) sets bit i iff lane i equals value, for every
\* probe value, and sets no bit above bit 15.
MatchByteExact ==
    IsOp("match_byte") =>
        /\ MaskInRange
        /\ \A i \in Lanes : (Bit(mask, i) = 1) <=> (grp[i] = probe)

MatchByteWitness ==
    /\ IsOp("match_byte")
    /\ backend = "avx2"
    /\ probe = DELETED
    /\ \E i, j \in Lanes :
        /\ i < 8 /\ j >= 8
        /\ grp[i] = probe /\ grp[j] # probe /\ HighBit(grp[j]) = 1
        /\ Bit(mask, i) = 1 /\ Bit(mask, j) = 0

\* C5: match_full and match_empty_or_deleted are complements over the 16
\* mask bits: no lane is in both, every lane is in one.
Partition ==
    IsOp("match_full") =>
        /\ BitAnd(mask, match_empty_or_deleted(backend, grp), 16) = 0
        /\ BitOr(mask, match_empty_or_deleted(backend, grp), 16) = 65535

PartitionWitness ==
    /\ IsOp("match_full")
    /\ backend = "array"
    /\ mask # 0
    /\ \E i, j \in Lanes : grp[i] = DELETED /\ grp[j] = EMPTY

\* C6: a load or load_aligned of the buffer that follows a store_aligned
\* of a group to it yields that group.
StoreLoadRoundTrip ==
    [][(op = "store_aligned" /\ op' \in {"load", "load_aligned"}
            /\ src' = "buf") => grp' = grp]_vars

RoundTripWitness ==
    /\ op \in {"load", "load_aligned"}
    /\ src = "buf"
    /\ bufAddr = BYTES
    /\ grp[0] # grp[1]
    /\ grp[0] > 255

\* C7: static_empty returns WIDTH words, all EMPTY, at an address that
\* passes load_aligned's alignment check; the group loaded from it matches
\* EMPTY in all 16 lanes.
StaticEmptyContract ==
    /\ DOMAIN ALIGNED_BYTES = Lanes
    /\ \A i \in Lanes : ALIGNED_BYTES[i] = EMPTY
    /\ ptr # NULL =>
        /\ ptr % GroupAlign(backend) = 0
        /\ IsAligned(backend, ptr)
    /\ (src = "static" /\ op \in {"load", "load_aligned"}) =>
           match_empty(backend, grp) = 65535
    /\ (src = "static" /\ IsOp("match_empty")) => mask = 65535

StaticEmptyWitness ==
    /\ backend = "avx2"
    /\ ptr = BYTES
    /\ src = "static"
    /\ IsOp("load_aligned")
    /\ \A i \in Lanes : grp[i] = EMPTY

\* C8: the array static_empty returns lies at a multiple of Group::BYTES.
StaticAlignedToGroupSize == ptr # NULL => ptr % BYTES = 0

\* C9: the saturating narrowing keeps the sign of every 16-bit word
\* (negative words go to -128..-1, the others to 0..127), so the sign bits
\* of the narrowed lanes are the mask of the lanes with the high bit set.
NarrowKeepsSign ==
    LET lo == mm256_extracti128_si256(grp, 0)
        hi == mm256_extracti128_si256(grp, 1)
        narrow == mm_packs_epi16(lo, hi)
    IN  (backend = "avx2" /\ IsOp("match_empty_or_deleted")) =>
            /\ \A i \in Lanes :
                /\ Bit(narrow[i], 7) = HighBit(grp[i])
                /\ HighBit(grp[i]) = 1 => AsI8(narrow[i]) \in -128 .. -1
                /\ HighBit(grp[i]) = 0 => AsI8(narrow[i]) \in 0 .. 127
                /\ Bit(mask, i) = HighBit(grp[i])
            /\ MaskInRange

NarrowWitness ==
    /\ backend = "avx2"
    /\ IsOp("match_empty_or_deleted")
    /\ \E i, j \in Lanes :
        /\ HighBit(grp[i]) = 0 /\ Bit(grp[i], 7) = 1 /\ Bit(mask, i) = 0
        /\ HighBit(grp[j]) = 1 /\ Bit(grp[j], 7) = 0 /\ Bit(mask, j) = 1

\* C10: the lanes that are EMPTY after the transform are the lanes that
\* were empty or deleted before it, and no lane is full after it.
ConvertThenMatch ==
    IsOp("convert") =>
        /\ match_empty(backend, out) = match_empty_or_deleted(backend, grp)
        /\ match_full(backend, out) = 0

====
